---- MODULE Spec2Model ----
(***************************************************************************)
(* Metrics logging and live monitoring of a federated DRL training run.    *)
(*                                                                         *)
(*   training_logger.py   TrainingLogger: appends rows to metrics.csv,     *)
(*                        actions.csv and training_log.txt                 *)
(*   monitor_training.py  TrainingMonitor: reads <agent>_metrics.csv and   *)
(*                        aggregates latest values and statistics          *)
(*   plot_realtime.py     DRLTrainingPlotter: reads metrics.csv            *)
(*                                                                         *)
(* Spec     the training process (one thread, several TrainingLogger       *)
(*          instances on one directory) next to a concurrent reader of     *)
(*          metrics.csv.  log_round is split at the points where the       *)
(*          reader can observe a difference: the row sits in the file      *)
(*          object's buffer until the with-block closes the file.          *)
(* SpecMon  the monitor's read / latest / statistics functions applied to  *)
(*          one agent's metrics file whose content Init draws.             *)
(*                                                                         *)
(* Numbers: a float is kept in hundredths (0.42 is 42), an int as itself.  *)
(* Arithmetic on floats is exact (no rounding error is modelled).          *)
(***************************************************************************)
EXTENDS Integers, Sequences, FiniteSets, TLC

\* ------------------------------------------------------------------ bounds
NumLoggers == 2          \* TrainingLogger instances on the directory
MaxClock == 5            \* the training process stops when the clock shows it
MaxRows == 3             \* data rows of an agent's metrics file

Loggers == 1..NumLoggers

\* ------------------------------------------------------- Python values
\* t: the Python type.  A str carries what its characters spell (lit).
PyInt(n) == [t |-> "int", lit |-> "", n |-> n, s |-> ""]
PyFloat(h) == [t |-> "float", lit |-> "", n |-> h, s |-> ""]
PyNone == [t |-> "none", lit |-> "", n |-> 0, s |-> ""]
StrInt(n) == [t |-> "str", lit |-> "int", n |-> n, s |-> ""]
StrFloat(h) == [t |-> "str", lit |-> "float", n |-> h, s |-> ""]
StrWord(w) == [t |-> "str", lit |-> "word", n |-> 0, s |-> w]
StrEmpty == [t |-> "str", lit |-> "empty", n |-> 0, s |-> ""]
\* datetime.now().isoformat() / strftime(...) at clock value c
StrTime(c) == [t |-> "str", lit |-> "word", n |-> c, s |-> "time"]

\* csv.writer: a str is written as it is, None as the empty field, every
\* other value through str()
CsvField(v) ==
    CASE v.t = "str" -> v
      [] v.t = "none" -> StrEmpty
      [] v.t = "int" -> StrInt(v.n)
      [] v.t = "float" -> StrFloat(v.n)

writerow(row) == [i \in 1..Len(row) |-> CsvField(row[i])]

\* a file: absent, or its rows in order
NoFile == [exists |-> FALSE, rows |-> <<>>]
FileOf(rows) == [exists |-> TRUE, rows |-> rows]

\* open(path, 'a') ... close: creates the file if needed, adds rows at the end
AppendRows(file, rows) == FileOf(file.rows \o rows)

METRICS_HEADER ==
    << "timestamp", "round", "client_id", "mean_reward",
       "std_reward", "episode_length", "loss", "global_reward" >>

ACTIONS_HEADER ==
    << "timestamp", "round", "client_id",
       "skip_0", "skip_1", "skip_2", "skip_3", "skip_4",
       "bitrate_low", "bitrate_med", "bitrate_high", "bitrate_auto",
       "prefetch_off", "prefetch_short", "prefetch_long" >>

HeaderRow(names) == [i \in 1..Len(names) |-> StrWord(names[i])]

\* ------------------------------------------------------ program constants
ACTION_BUCKETS == 12     \* skip x5, bitrate x4, prefetch x3

\* ---------------------------------------------------------------- inputs
\* log_round arguments (std_reward, episode_length, loss and global_reward
\* have defaults 0.0, 0, 0.0 and None)
RoundInput(r, c, mr, sd, el, lo, gr) ==
    [round_num |-> r, client_id |-> c, mean_reward |-> mr, std_reward |-> sd,
     episode_length |-> el, loss |-> lo, global_reward |-> gr]

RoundInputs ==
    { RoundInput(1, 0, 42, 0, 0, 5, PyNone),
      RoundInput(2, 0, 55, 0, 0, 3, PyNone),
      RoundInput(2, 1, 42, 10, 50, 5, PyFloat(50)) }

\* log_action_distribution's action_counts: k counts 1..k
Counts(k) == [i \in 1..k |-> i]
ActionCountInputs ==
    { Counts(k) : k \in {0, 8, ACTION_BUCKETS, ACTION_BUCKETS + 1} }

\* ----------------------------------------------------------------- state
VARIABLES
    metrics_file,     \* output_dir / metrics.csv
    actions_file,     \* output_dir / actions.csv
    events_file,      \* output_dir / training_log.txt
    constructed,      \* per instance: __init__ has run
    metrics_buffer,   \* per instance: self.metrics_buffer
    actions_buffer,   \* per instance: self.actions_buffer
    events_buffer,    \* per instance: self.events_buffer
    pc,               \* position of the training process
    cur,              \* the log_round call in progress
    handle,           \* rows written to the open file object, not yet flushed
    clock,            \* datetime.now()
    calls,            \* history: the log_round calls made, in order
    returned,         \* history: the log_round calls that returned, in order
    lastOp,           \* history: the operation the training process made last
    prevRun,          \* history: the directory held an earlier run's files
    metrics_df,       \* reader: result of its last read_metrics()
    readSeen,         \* history: `returned` when that read opened the file
    agent_file,       \* monitor: results_dir / <agent>_metrics.csv
    data,             \* monitor: result of load_metrics
    latest,           \* monitor: result of get_latest_metrics
    stats,            \* monitor: result of get_statistics
    metric_files,     \* dashboard: results_dir / <agent>_metrics.csv, per agent
    summary_file,     \* dashboard: results_dir / summary.csv
    mpc,              \* dashboard: position of run()
    iteration,        \* dashboard: self.iteration
    screen,           \* dashboard: what the terminal shows
    interrupted,      \* history: a KeyboardInterrupt was delivered
    frame,            \* plotter: refreshes made
    panels            \* plotter: per axes, what it shows and the refresh that drew it

loggerVars ==
    << metrics_file, actions_file, events_file, constructed, metrics_buffer,
       actions_buffer, events_buffer, pc, cur, handle, clock, calls, returned,
       lastOp, prevRun, metrics_df, readSeen >>
dashVars == << metric_files, summary_file, mpc, iteration, screen, interrupted >>
plotVars == << frame, panels >>
monitorVars == << agent_file, data, latest, stats, dashVars, plotVars >>
vars == << loggerVars, monitorVars >>

NoCall == [l |-> 0, ts |-> 0, row |-> <<>>, input |-> RoundInput(0, 0, 0, 0, 0, 0, PyNone)]
Op(name, l, counts) == [op |-> name, l |-> l, at |-> clock, action_counts |-> counts]

\* ------------------------------------------------------- TrainingLogger
Msg(tmpl, args, text) == [tmpl |-> tmpl, args |-> args, text |-> text]
EventLine(ts, level, message) == [timestamp |-> StrTime(ts), level |-> level, message |-> message]

\* variant: the header is written without looking for the file
_init_metrics_csv_unconditional(file) == FileOf(<< HeaderRow(METRICS_HEADER) >>)

_init_metrics_csv(file) ==
    IF ~file.exists THEN FileOf(<< HeaderRow(METRICS_HEADER) >>) ELSE file

_init_actions_csv(file) ==
    IF ~file.exists THEN FileOf(<< HeaderRow(ACTIONS_HEADER) >>) ELSE file

\* variant: the line reaches the file twice
_log_event_twice(l, ts, message, level) ==
    LET log_line == EventLine(ts, level, message) IN
    /\ events_file' = AppendRows(events_file, << log_line, log_line >>)
    /\ events_buffer' = [events_buffer EXCEPT ![l] = Append(@, log_line)]

\* _log_event at time ts: one line to the file, the same line to the buffer
_log_event(l, ts, message, level) ==
    LET log_line == EventLine(ts, level, message) IN
    /\ events_file' = AppendRows(events_file, << log_line >>)
    /\ events_buffer' = [events_buffer EXCEPT ![l] = Append(@, log_line)]

\* __init__; the instances are numbered in the order of their construction
Construct(l) ==
    /\ pc = "idle"
    /\ ~constructed[l]
    /\ \A k \in 1..(l - 1) : constructed[k]
    /\ clock < MaxClock
    /\ clock' = clock + 1
    /\ constructed' = [constructed EXCEPT ![l] = TRUE]
    /\ metrics_file' = _init_metrics_csv(metrics_file)
    /\ actions_file' = _init_actions_csv(actions_file)
    /\ metrics_buffer' = [metrics_buffer EXCEPT ![l] = <<>>]
    /\ actions_buffer' = [actions_buffer EXCEPT ![l] = <<>>]
    /\ _log_event(l, clock, Msg("Logger initialized", <<>>, <<>>), "INFO")
    /\ lastOp' = Op("__init__", l, <<>>)
    /\ UNCHANGED << pc, cur, handle, calls, returned, prevRun, metrics_df, readSeen >>
    /\ UNCHANGED monitorVars

\* the row log_round builds
MetricsRow(ts, in) ==
    << StrTime(ts), PyInt(in.round_num), PyInt(in.client_id), PyFloat(in.mean_reward),
       PyFloat(in.std_reward), PyInt(in.episode_length), PyFloat(in.loss),
       IF in.global_reward # PyNone THEN in.global_reward ELSE StrEmpty >>

\* log_round up to writer.writerow(row): the row is in the file object's buffer
LogRoundWrite(l, in) ==
    /\ pc = "idle"
    /\ constructed[l]
    /\ clock < MaxClock
    /\ clock' = clock + 1
    /\ LET row == MetricsRow(clock, in) IN
        /\ cur' = [l |-> l, ts |-> clock, row |-> row, input |-> in]
        /\ handle' = << writerow(row) >>
        /\ calls' = Append(calls, [l |-> l, ts |-> clock, input |-> in])
    /\ metrics_file' = AppendRows(metrics_file, <<>>)
    /\ pc' = "writing"
    /\ lastOp' = Op("log_round", l, <<>>)
    /\ UNCHANGED << actions_file, events_file, constructed, metrics_buffer, actions_buffer,
                    events_buffer, returned, prevRun, metrics_df, readSeen >>
    /\ UNCHANGED monitorVars

\* variant: the file object is left open, nothing reaches the file
CloseFile_unflushed(file, buffered) == file

\* variant: the rows go to the front of the data rows (a rewrite instead of an append)
CloseFile_front(file, buffered) ==
    IF file.rows = <<>> THEN FileOf(buffered)
    ELSE FileOf(<< Head(file.rows) >> \o buffered \o Tail(file.rows))

\* what leaving the with-block does with the buffered rows
CloseFile(file, buffered) == AppendRows(file, buffered)

\* log_round: the with-block ends, the file is closed
LogRoundClose ==
    /\ pc = "writing"
    /\ metrics_file' = CloseFile(metrics_file, handle)
    /\ handle' = <<>>
    /\ pc' = "written"
    /\ UNCHANGED << actions_file, events_file, constructed, metrics_buffer, actions_buffer,
                    events_buffer, cur, clock, calls, returned, lastOp, prevRun,
                    metrics_df, readSeen >>
    /\ UNCHANGED monitorVars

\* log_round: the METRIC event, the buffer append, the return
LogRoundReturn ==
    /\ pc = "written"
    /\ _log_event(cur.l, cur.ts,
                  Msg("Round | Client | Reward | Loss",
                      << cur.input.round_num, cur.input.client_id,
                         cur.input.mean_reward, cur.input.loss >>, <<>>),
                  "METRIC")
    /\ metrics_buffer' = [metrics_buffer EXCEPT ![cur.l] = Append(@, cur.row)]
    /\ returned' = Append(returned, [ts |-> cur.ts, input |-> cur.input])
    /\ cur' = NoCall
    /\ pc' = "idle"
    /\ UNCHANGED << metrics_file, actions_file, constructed, actions_buffer, handle,
                    clock, calls, lastOp, prevRun, metrics_df, readSeen >>
    /\ UNCHANGED monitorVars

\* the list log_action_distribution stores: [0] * n is empty for n <= 0
Zeros(n) == [i \in 1..n |-> 0]
\* variant: the counts are stored as given
NormalizeCounts_asgiven(action_counts) == action_counts

NormalizeCounts(action_counts) ==
    IF Len(action_counts) # ACTION_BUCKETS
    THEN action_counts \o Zeros(ACTION_BUCKETS - Len(action_counts))
    ELSE action_counts

ActionsRow(ts, round_num, client_id, action_counts) ==
    << StrTime(ts), PyInt(round_num), PyInt(client_id) >>
        \o [i \in 1..Len(action_counts) |-> PyInt(action_counts[i])]

LogActionDistribution(l, round_num, client_id, action_counts) ==
    /\ pc = "idle"
    /\ constructed[l]
    /\ clock < MaxClock
    /\ clock' = clock + 1
    /\ LET row == ActionsRow(clock, round_num, client_id, NormalizeCounts(action_counts)) IN
        /\ actions_file' = AppendRows(actions_file, << writerow(row) >>)
        /\ actions_buffer' = [actions_buffer EXCEPT ![l] = Append(@, row)]
    /\ lastOp' = Op("log_action_distribution", l, action_counts)
    /\ UNCHANGED << metrics_file, events_file, constructed, metrics_buffer, events_buffer,
                    pc, cur, handle, calls, returned, prevRun, metrics_df, readSeen >>
    /\ UNCHANGED monitorVars

\* the four event operations: one _log_event each, nothing else
EventOp(name, l, message, level) ==
    /\ pc = "idle"
    /\ constructed[l]
    /\ clock < MaxClock
    /\ clock' = clock + 1
    /\ _log_event(l, clock, message, level)
    /\ lastOp' = Op(name, l, <<>>)
    /\ UNCHANGED << metrics_file, actions_file, constructed, metrics_buffer, actions_buffer,
                    pc, cur, handle, calls, returned, prevRun, metrics_df, readSeen >>
    /\ UNCHANGED monitorVars

log_episode(l, round_num, client_id, episode_num, total_reward, length) ==
    EventOp("log_episode", l,
            Msg("Round | Client | Episode | Reward | Length",
                << round_num, client_id, episode_num, total_reward, length >>, <<>>),
            "EPISODE")

log_aggregation(l, round_num, num_clients, pre_avg_variance, post_avg_variance) ==
    EventOp("log_aggregation", l,
            Msg("Round | FedAvg | Clients | Variance",
                << round_num, num_clients, pre_avg_variance, post_avg_variance >>, <<>>),
            "AGGREGATION")

\* exception: "" stands for None
log_error(l, message, exception) ==
    EventOp("log_error", l,
            Msg("", <<>>,
                IF exception # "" THEN << message, " | Exception: ", exception >>
                                  ELSE << message >>),
            "ERROR")

log_checkpoint(l, round_num, checkpoint_path) ==
    EventOp("log_checkpoint", l,
            Msg("Round | Checkpoint saved", << round_num >>, << checkpoint_path >>),
            "CHECKPOINT")

\* ------------------------------------------------------------ arithmetic
RECURSIVE GCD(_, _)
GCD(a, b) == IF b = 0 THEN a ELSE GCD(b, a % b)
Abs(a) == IF a < 0 THEN -a ELSE a

\* the rational n/d (d > 0) in lowest terms
Frac(n, d) ==
    LET g == GCD(Abs(n), d) IN [num |-> n \div g, den |-> d \div g]
Zero == Frac(0, 1)
\* the square root of a rational, kept by its radicand
Sqrt(q) == [sqrt_of |-> q]

RECURSIVE SeqSum(_)
SeqSum(s) == IF s = <<>> THEN 0 ELSE Head(s) + SeqSum(Tail(s))
SeqMax(s) == CHOOSE x \in {s[i] : i \in 1..Len(s)} : \A j \in 1..Len(s) : s[j] <= x
SeqMin(s) == CHOOSE x \in {s[i] : i \in 1..Len(s)} : \A j \in 1..Len(s) : x <= s[j]

\* sum(values) / len(values)
Mean(values) == Frac(SeqSum(values), Len(values))
\* sum((x - mean) ** 2 for x in values) / len(values), with mean = S/n:
\* (x - S/n)^2 = (n*x - S)^2 / n^2
PopVariance(values) ==
    LET n == Len(values)
        S == SeqSum(values)
    IN  Frac(SeqSum([i \in 1..n |-> (n * values[i] - S) * (n * values[i] - S)]), n * n * n)

\* get_metrics_summary
IsNumber(v) == v.t \in {"int", "float"}
\* variant: the summary counts the rows of metrics.csv instead of the buffer
get_metrics_summary_fromfile(l) ==
    LET body == Tail(metrics_file.rows) IN
    IF Len(body) = 0
    THEN [status |-> "No metrics logged yet"]
    ELSE [total_rounds |-> Cardinality({body[i][2] : i \in 1..Len(body)}),
          total_clients |-> Cardinality({body[i][3] : i \in 1..Len(body)}),
          total_metrics |-> Len(body),
          avg_reward |-> Zero, max_reward |-> Zero, min_reward |-> Zero,
          std_reward |-> Sqrt(Zero)]

get_metrics_summary(l) ==
    LET buf == metrics_buffer[l]
        picked == SelectSeq(buf, LAMBDA row : IsNumber(row[4]))
        rewards == [i \in 1..Len(picked) |->
                        IF picked[i][4].t = "int" THEN 100 * picked[i][4].n ELSE picked[i][4].n]
    IN  IF Len(buf) = 0
        THEN [status |-> "No metrics logged yet"]
        ELSE [total_rounds |-> Cardinality({buf[i][2] : i \in 1..Len(buf)}),
              total_clients |-> Cardinality({buf[i][3] : i \in 1..Len(buf)}),
              total_metrics |-> Len(buf),
              avg_reward |-> IF rewards # <<>> THEN Mean(rewards) ELSE Zero,
              max_reward |-> IF rewards # <<>> THEN Frac(SeqMax(rewards), 1) ELSE Zero,
              min_reward |-> IF rewards # <<>> THEN Frac(SeqMin(rewards), 1) ELSE Zero,
              std_reward |-> IF rewards # <<>> THEN Sqrt(PopVariance(rewards)) ELSE Sqrt(Zero)]

\* ------------------------------------------------ DRLTrainingPlotter (reader)
NaN == [t |-> "nan", lit |-> "", n |-> 0, s |-> ""]
\* pandas' value of a field: a number, NaN for the empty field, else the text
PdValue(field) ==
    CASE field.lit = "int" -> PyFloat(100 * field.n)
      [] field.lit = "float" -> PyFloat(field.n)
      [] field.lit = "empty" -> NaN
      [] OTHER -> field

None == [isNone |-> TRUE, columns |-> <<>>, rows |-> <<>>]
DataFrame(columns, rows) == [isNone |-> FALSE, columns |-> columns, rows |-> rows]

\* read_metrics: None for a missing file and for a file pandas cannot parse
\* (no header line); the rows of metrics.csv all have as many fields as the header
read_metrics(file) ==
    IF file.exists
    THEN IF file.rows = <<>>
         THEN None
         ELSE DataFrame([i \in 1..Len(file.rows[1]) |-> file.rows[1][i].s],
                        [r \in 1..(Len(file.rows) - 1) |->
                            [i \in 1..Len(file.rows[r + 1]) |-> PdValue(file.rows[r + 1][i])]])
    ELSE None

\* a refresh of the plotter reads metrics.csv
ReadMetrics ==
    /\ metrics_df' = read_metrics(metrics_file)
    /\ readSeen' = returned
    /\ UNCHANGED << metrics_file, actions_file, events_file, constructed, metrics_buffer,
                    actions_buffer, events_buffer, pc, cur, handle, clock, calls, returned,
                    lastOp, prevRun >>
    /\ UNCHANGED monitorVars

\* ------------------------------------------------------- TrainingMonitor
\* float(v): ok and the value in hundredths, or not ok (ValueError, TypeError)
ToFloat(v) ==
    CASE v.t = "int" -> [ok |-> TRUE, h |-> 100 * v.n]
      [] v.t = "float" -> [ok |-> TRUE, h |-> v.n]
      [] v.t = "str" /\ v.lit = "int" -> [ok |-> TRUE, h |-> 100 * v.n]
      [] v.t = "str" /\ v.lit = "float" -> [ok |-> TRUE, h |-> v.n]
      [] OTHER -> [ok |-> FALSE, h |-> 0]

\* int(x) of a float in hundredths: towards zero
ToInt(h) == IF h >= 0 THEN h \div 100 ELSE -((-h) \div 100)

\* bool(v) of a dictionary value
Truthy(v) ==
    CASE v.t = "none" -> FALSE
      [] v.t = "str" -> v.lit # "empty"
      [] v.t = "list" -> v.n > 0
      [] OTHER -> v.n # 0

\* csv.DictReader: the first row names the fields; a short row gets None for
\* the fields it lacks, the fields beyond the header go under the key None
RESTKEY == "<None>"
FieldIndex(fieldnames, k) == CHOOSE i \in 1..Len(fieldnames) : fieldnames[i] = k
RowDict(fieldnames, row) ==
    [k \in {fieldnames[i] : i \in 1..Len(fieldnames)}
            \cup (IF Len(row) > Len(fieldnames) THEN {RESTKEY} ELSE {}) |->
        IF k = RESTKEY /\ Len(row) > Len(fieldnames)
        THEN [t |-> "list", lit |-> "", n |-> Len(row) - Len(fieldnames), s |-> ""]
        ELSE IF FieldIndex(fieldnames, k) <= Len(row)
             THEN row[FieldIndex(fieldnames, k)]
             ELSE PyNone]

DictReader(file) ==
    IF file.rows = <<>>
    THEN <<>>
    ELSE LET fieldnames == [i \in 1..Len(file.rows[1]) |-> file.rows[1][i].s]
             body == SelectSeq(Tail(file.rows), LAMBDA row : Len(row) > 0)
         IN  [r \in 1..Len(body) |-> RowDict(fieldnames, body[r])]

\* a list of row dictionaries, or None
NoData == [isNone |-> TRUE, rows |-> <<>>]
List(rows) == [isNone |-> FALSE, rows |-> rows]

load_metrics(file) ==
    IF file.exists /\ Len(DictReader(file)) > 0
    THEN List(DictReader(file))
    ELSE NoData

Latest(round, accuracy, reward) ==
    [raised |-> FALSE, round |-> round, accuracy |-> accuracy, reward |-> reward]
LatestRaised == [raised |-> TRUE, round |-> 0, accuracy |-> 0, reward |-> 0]

\* dict.get(key, default)
Get(row, key, default) == IF key \in DOMAIN row THEN row[key] ELSE default

\* variant: data[0] instead of data[-1]
get_latest_metrics_first(d) ==
    IF d.isNone \/ Len(d.rows) = 0
    THEN Latest(0, 0, 0)
    ELSE LET row == d.rows[1]
             round == ToFloat(Get(row, "round", PyInt(0)))
             accuracy == ToFloat(Get(row, "accuracy", PyFloat(0)))
             reward == ToFloat(Get(row, "reward", PyFloat(0)))
         IN  IF round.ok /\ accuracy.ok /\ reward.ok
             THEN Latest(ToInt(round.h), accuracy.h, reward.h)
             ELSE LatestRaised

get_latest_metrics(d) ==
    IF d.isNone \/ Len(d.rows) = 0
    THEN Latest(0, 0, 0)
    ELSE LET row == d.rows[Len(d.rows)]
             round == ToFloat(Get(row, "round", PyInt(0)))
             accuracy == ToFloat(Get(row, "accuracy", PyFloat(0)))
             reward == ToFloat(Get(row, "reward", PyFloat(0)))
         IN  IF round.ok /\ accuracy.ok /\ reward.ok
             THEN Latest(ToInt(round.h), accuracy.h, reward.h)
             ELSE LatestRaised

Statistics(mean, std, max, min) == [mean |-> mean, std |-> std, max |-> max, min |-> min]
ZeroStatistics == Statistics(Zero, Sqrt(Zero), Zero, Zero)

\* what the bare except of get_statistics returns
OnValueError == ZeroStatistics

get_statistics(d, column) ==
    IF d.isNone \/ Len(d.rows) = 0
    THEN ZeroStatistics
    ELSE LET picked == SelectSeq(d.rows,
                                 LAMBDA row : column \in DOMAIN row /\ Truthy(row[column]))
             floats == [i \in 1..Len(picked) |-> ToFloat(picked[i][column])]
             values == [i \in 1..Len(picked) |-> floats[i].h]
         IN  IF \E i \in 1..Len(picked) : ~floats[i].ok
             THEN OnValueError
             ELSE IF Len(values) = 0
                  THEN ZeroStatistics
                  ELSE Statistics(Mean(values), Sqrt(PopVariance(values)),
                                  Frac(SeqMax(values), 1), Frac(SeqMin(values), 1))

\* the monitor reads the agent's file
LoadMetrics ==
    /\ data' = << load_metrics(agent_file) >>
    /\ UNCHANGED << agent_file, latest, stats, dashVars, plotVars >>
    /\ UNCHANGED loggerVars

\* get_latest_metrics on what was loaded, or on an empty list
GetLatest(d) ==
    /\ latest' = << [arg |-> d, result |-> get_latest_metrics(d)] >>
    /\ UNCHANGED << agent_file, data, stats, dashVars, plotVars >>
    /\ UNCHANGED loggerVars

\* get_statistics on what was loaded, or on an empty list
GetStatistics(d, column) ==
    /\ stats' = << [arg |-> d, column |-> column, result |-> get_statistics(d, column)] >>
    /\ UNCHANGED << agent_file, data, latest, dashVars, plotVars >>
    /\ UNCHANGED loggerVars

\* ------------------------------------------------------------------ Spec
\* an earlier run's files, as this logger leaves them
OldMetricsRow == MetricsRow(0, RoundInput(1, 0, 42, 0, 0, 5, PyNone))
OldActionsRow == ActionsRow(0, 1, 0, Counts(ACTION_BUCKETS))
OldEventLine == EventLine(0, "INFO", Msg("Logger initialized", <<>>, <<>>))

\* the agents, in the order display_training_progress goes through them
AGENT_ORDER == << "PPO", "SAC", "TD3", "Random" >>
Agents == { AGENT_ORDER[i] : i \in 1..Len(AGENT_ORDER) }

\* the five axes of the figure, empty as add_subplot leaves them
Axes == { "ax1", "ax2", "ax3", "ax4", "ax5" }
\* what an axes object shows: the refresh that drew it, the kind of content,
\* and for a bar chart the bars' names and widths
Panel(drawn, shows, names, values) ==
    [drawn |-> drawn, shows |-> shows, names |-> names, values |-> values]

DashIdle ==
    /\ metric_files = [a \in Agents |-> NoFile]
    /\ summary_file = NoFile
    /\ mpc = "off"
    /\ iteration = 0
    /\ screen = <<>>
    /\ interrupted = FALSE

PlotIdle ==
    /\ frame = 0
    /\ panels = [ax \in Axes |-> Panel(0, "empty", <<>>, <<>>)]

MonitorIdle ==
    /\ agent_file = NoFile
    /\ data = <<>>
    /\ latest = <<>>
    /\ stats = <<>>
    /\ DashIdle
    /\ PlotIdle

Init ==
    /\ prevRun \in BOOLEAN
    /\ metrics_file = IF prevRun
                      THEN FileOf(<< HeaderRow(METRICS_HEADER), writerow(OldMetricsRow) >>)
                      ELSE NoFile
    /\ actions_file = IF prevRun
                      THEN FileOf(<< HeaderRow(ACTIONS_HEADER), writerow(OldActionsRow) >>)
                      ELSE NoFile
    /\ events_file = IF prevRun THEN FileOf(<< OldEventLine >>) ELSE NoFile
    /\ constructed = [l \in Loggers |-> FALSE]
    /\ metrics_buffer = [l \in Loggers |-> <<>>]
    /\ actions_buffer = [l \in Loggers |-> <<>>]
    /\ events_buffer = [l \in Loggers |-> <<>>]
    /\ pc = "idle"
    /\ cur = NoCall
    /\ handle = <<>>
    /\ clock = 1
    /\ calls = <<>>
    /\ returned = <<>>
    /\ lastOp = [op |-> "", l |-> 0, at |-> 0, action_counts |-> <<>>]
    /\ metrics_df = None
    /\ readSeen = <<>>
    /\ MonitorIdle

Next ==
    \/ \E l \in Loggers : Construct(l)
    \/ \E l \in Loggers, in \in RoundInputs : LogRoundWrite(l, in)
    \/ LogRoundClose
    \/ LogRoundReturn
    \/ \E l \in Loggers, counts \in ActionCountInputs : LogActionDistribution(l, 1, 0, counts)
    \/ \E l \in Loggers : log_episode(l, 1, 0, 1, 42, 50)
    \/ \E l \in Loggers : log_aggregation(l, 1, 2, 10, 5)
    \/ \E l \in Loggers, exception \in {"", "OSError"} : log_error(l, "step failed", exception)
    \/ \E l \in Loggers : log_checkpoint(l, 1, "ckpt/round_1")
    \/ ReadMetrics

Spec == Init /\ [][Next]_vars

\* --------------------------------------------------------------- SpecMon
\* rows of an agent's metrics file (columns round, accuracy, reward): numeric
\* fields, an empty field, a malformed field, a row cut short
AgentRows ==
    { << StrInt(1), StrFloat(50), StrFloat(42) >>,
      << StrInt(2), StrFloat(80), StrFloat(55) >>,
      << StrFloat(250), StrEmpty, StrFloat(42) >>,
      << StrInt(3), StrWord("abc"), StrFloat(10) >>,
      << StrInt(3) >>,
      << StrInt(4), StrInt(1), StrFloat(-25) >> }

RECURSIVE SeqsUpTo(_, _)
\* the sequences over S of length at most n
SeqsUpTo(S, n) ==
    IF n = 0 THEN { <<>> }
    ELSE LET shorter == SeqsUpTo(S, n - 1)
         IN  shorter \cup { Append(q, x) : q \in shorter, x \in S }

\* metrics.csv as a TrainingLogger leaves it after the calls ins, on an empty directory
LoggerFile(ins) ==
    CloseFile(_init_metrics_csv(NoFile),
              [i \in 1..Len(ins) |-> writerow(MetricsRow(i, ins[i]))])

AgentFiles ==
    { NoFile, FileOf(<<>>) }
    \cup { FileOf(<< HeaderRow(<< "round", "accuracy", "reward" >>) >> \o rows) :
              rows \in SeqsUpTo(AgentRows, MaxRows) }
    \cup { FileOf(<< HeaderRow(<< "round", "accuracy" >>), << StrInt(1), StrFloat(50) >> >>) }
    \cup { LoggerFile(ins) : ins \in SeqsUpTo(RoundInputs, MaxRows) }

LoggerIdle ==
    /\ prevRun = FALSE
    /\ metrics_file = NoFile
    /\ actions_file = NoFile
    /\ events_file = NoFile
    /\ constructed = [l \in Loggers |-> FALSE]
    /\ metrics_buffer = [l \in Loggers |-> <<>>]
    /\ actions_buffer = [l \in Loggers |-> <<>>]
    /\ events_buffer = [l \in Loggers |-> <<>>]
    /\ pc = "idle"
    /\ cur = NoCall
    /\ handle = <<>>
    /\ clock = 1
    /\ calls = <<>>
    /\ returned = <<>>
    /\ lastOp = [op |-> "", l |-> 0, at |-> 0, action_counts |-> <<>>]
    /\ metrics_df = None
    /\ readSeen = <<>>

InitMon ==
    /\ LoggerIdle
    /\ agent_file \in AgentFiles
    /\ data = <<>>
    /\ latest = <<>>
    /\ stats = <<>>
    /\ DashIdle
    /\ PlotIdle

NextMon ==
    \/ LoadMetrics
    \/ \E d \in {data[i] : i \in 1..Len(data)} \cup {List(<<>>)} : GetLatest(d)
    \/ \E d \in {data[i] : i \in 1..Len(data)} \cup {List(<<>>)},
          column \in {"accuracy", "reward", "mean_reward"} : GetStatistics(d, column)

SpecMon == InitMon /\ [][NextMon]_vars

\* -------------------------------------------------------------- SpecDash
\* the console dashboard: run() as its steps, with a KeyboardInterrupt that
\* can arrive between any two of them
MaxCycles == 2           \* poll cycles (self.iteration is not bounded in the code)
RECENT_ROWS == 5         \* data[-5:]

\* a cell of a printed line: a fixed text, or the number num/den
Text(t) == [text |-> t, num |-> 0, den |-> 1]
Number(q) == [text |-> "", num |-> q.num, den |-> q.den]
Line(kind, agent, cells) == [kind |-> kind, agent |-> agent, cells |-> cells]

check_files_exist(files) == [a \in Agents |-> files[a].exists]

NARow(agent) ==
    Line("row", agent, << Text("N/A"), Text("N/A"), Text("N/A"), Text("N/A"), Text("N/A") >>)

\* variant: max() that keeps the last of several maximal entries
RECURSIVE MaxIndex_last(_, _, _)
MaxIndex_last(all, i, best) ==
    IF i > Len(all) THEN best
    ELSE IF all[i].latest.accuracy >= all[best].latest.accuracy
         THEN MaxIndex_last(all, i + 1, i)
         ELSE MaxIndex_last(all, i + 1, best)

RECURSIVE MaxIndex(_, _, _)
\* max(all_metrics.keys(), key=...): the keys in insertion order, a later key
\* replaces the best one only if its accuracy is greater
MaxIndex(all, i, best) ==
    IF i > Len(all) THEN best
    ELSE IF all[i].latest.accuracy > all[best].latest.accuracy
         THEN MaxIndex(all, i + 1, i)
         ELSE MaxIndex(all, i + 1, best)

RECURSIVE ProgressLoop(_, _, _)
\* the loop over the agents from the i-th on: the lines printed, the entries
\* put into all_metrics, and whether get_latest_metrics raised (the loop ends there)
ProgressLoop(files, available, i) ==
    IF i > Len(AGENT_ORDER)
    THEN [lines |-> <<>>, all |-> <<>>, raised |-> FALSE]
    ELSE LET agent == AGENT_ORDER[i]
             df == load_metrics(files[agent])
             lat == get_latest_metrics(df)
             st == get_statistics(df, "accuracy")
             rest == ProgressLoop(files, available, i + 1)
         IN  IF ~available[agent] \/ df.isNone \/ Len(df.rows) = 0
             THEN [lines |-> << NARow(agent) >> \o rest.lines, all |-> rest.all,
                   raised |-> rest.raised]
             ELSE IF lat.raised
                  THEN [lines |-> <<>>, all |-> <<>>, raised |-> TRUE]
                  ELSE [lines |-> << Line("row", agent,
                                          << Number(Frac(lat.round, 1)),
                                             Number(Frac(lat.accuracy, 1)),
                                             Number(st.mean), Number(st.max),
                                             Number(Frac(lat.reward, 1)) >>) >>
                                  \o rest.lines,
                        all |-> << [agent |-> agent, latest |-> lat, stats |-> st] >>
                                  \o rest.all,
                        raised |-> rest.raised]

display_training_progress(files) ==
    LET available == check_files_exist(files)
        loop == ProgressLoop(files, available, 1)
        best == loop.all[MaxIndex(loop.all, 2, 1)]
    IN  IF \A a \in Agents : ~available[a]
        THEN [lines |-> << Line("progress_title", "", <<>>),
                           Line("no_training_data", "", <<>>) >>,
              raised |-> FALSE]
        ELSE [lines |-> << Line("progress_title", "", <<>>),
                           Line("table_header", "", <<>>) >>
                        \o loop.lines
                        \o (IF ~loop.raised /\ loop.all # <<>>
                            THEN << Line("best", best.agent,
                                         << Number(Frac(best.latest.accuracy, 1)) >>) >>
                            ELSE <<>>),
              raised |-> loop.raised]

\* data[-5:] if len(data) >= 5 else data
Recent(rows) ==
    IF Len(rows) >= RECENT_ROWS
    THEN SubSeq(rows, Len(rows) - RECENT_ROWS + 1, Len(rows))
    ELSE rows

\* one line per agent; the try / except turns every conversion error into
\* "Data format error"
HistoryLine(agent, file) ==
    LET d == load_metrics(file)
        recent == SelectSeq(Recent(d.rows),
                            LAMBDA row : "round" \in DOMAIN row /\ "accuracy" \in DOMAIN row)
        bad == \E i \in 1..Len(recent) :
                  ~ToFloat(recent[i]["round"]).ok \/ ~ToFloat(recent[i]["accuracy"]).ok
    IN  IF d.isNone \/ Len(d.rows) = 0
        THEN Line("no_data", agent, <<>>)
        ELSE IF bad
             THEN Line("format_error", agent, <<>>)
             ELSE Line("history", agent,
                       [i \in 1..(2 * Len(recent)) |->
                           IF i % 2 = 1
                           THEN Number(Frac(ToInt(ToFloat(recent[(i + 1) \div 2]["round"]).h), 1))
                           ELSE Number(Frac(ToFloat(recent[i \div 2]["accuracy"]).h, 1))])

display_recent_history(files) ==
    << Line("history_title", "", <<>>) >>
        \o [i \in 1..Len(AGENT_ORDER) |-> HistoryLine(AGENT_ORDER[i], files[AGENT_ORDER[i]])]

\* load_summary: the rows of summary.csv, None if there is no file
load_summary(file) == IF file.exists THEN List(DictReader(file)) ELSE NoData

RECURSIVE SummaryLoop(_, _)
\* the lines of the rows from the i-th on; float() of a field can raise
SummaryLoop(rows, i) ==
    IF i > Len(rows)
    THEN [lines |-> <<>>, raised |-> FALSE]
    ELSE LET row == rows[i]
             agent == Get(row, "agent", StrWord("Unknown"))
             final_acc == ToFloat(Get(row, "final_accuracy", PyFloat(0)))
             mean_acc == ToFloat(Get(row, "mean_accuracy", PyFloat(0)))
             std_acc == ToFloat(Get(row, "std_accuracy", PyFloat(0)))
             time_taken == ToFloat(Get(row, "training_time_seconds", PyFloat(0)))
             rest == SummaryLoop(rows, i + 1)
         IN  IF final_acc.ok /\ mean_acc.ok /\ std_acc.ok /\ time_taken.ok /\ agent.t = "str"
             THEN [lines |-> << Line("summary_row", agent.s,
                                     << Number(Frac(final_acc.h, 1)), Number(Frac(mean_acc.h, 1)),
                                        Number(Frac(std_acc.h, 1)), Number(Frac(time_taken.h, 1)) >>) >>
                                \o rest.lines,
                   raised |-> rest.raised]
             ELSE [lines |-> <<>>, raised |-> TRUE]

display_summary(file) ==
    LET summary_data == load_summary(file)
        loop == SummaryLoop(summary_data.rows, 1)
    IN  IF ~summary_data.isNone /\ Len(summary_data.rows) > 0
        THEN [lines |-> << Line("summary_title", "", <<>>) >> \o loop.lines,
              raised |-> loop.raised]
        ELSE [lines |-> <<>>, raised |-> FALSE]

Running == { "top", "progress", "history", "summary", "footer", "sleep" }

\* a step of run() changes the dashboard only
DashStep == UNCHANGED << agent_file, data, latest, stats, plotVars >> /\ UNCHANGED loggerVars

\* self.iteration += 1; display_header() clears the screen
DisplayHeader ==
    /\ mpc = "top"
    /\ iteration < MaxCycles
    /\ iteration' = iteration + 1
    /\ screen' = << Line("header", "", <<>>) >>
    /\ mpc' = "progress"
    /\ UNCHANGED << metric_files, summary_file, interrupted >>
    /\ DashStep

\* an exception other than KeyboardInterrupt leaves run(): the process ends
DisplayProgress ==
    /\ mpc = "progress"
    /\ LET out == display_training_progress(metric_files) IN
        /\ screen' = screen \o out.lines
        /\ mpc' = IF out.raised THEN "crashed" ELSE "history"
    /\ UNCHANGED << metric_files, summary_file, iteration, interrupted >>
    /\ DashStep

DisplayHistory ==
    /\ mpc = "history"
    /\ screen' = screen \o display_recent_history(metric_files)
    /\ mpc' = "summary"
    /\ UNCHANGED << metric_files, summary_file, iteration, interrupted >>
    /\ DashStep

DisplaySummary ==
    /\ mpc = "summary"
    /\ LET out == display_summary(summary_file) IN
        /\ screen' = screen \o out.lines
        /\ mpc' = IF out.raised THEN "crashed" ELSE "footer"
    /\ UNCHANGED << metric_files, summary_file, iteration, interrupted >>
    /\ DashStep

\* print(f"Refresh #{self.iteration} | Press Ctrl+C to exit")
DisplayFooter ==
    /\ mpc = "footer"
    /\ screen' = Append(screen, Line("footer", "", << Number(Frac(iteration, 1)) >>))
    /\ mpc' = "sleep"
    /\ UNCHANGED << metric_files, summary_file, iteration, interrupted >>
    /\ DashStep

\* time.sleep(REFRESH_INTERVAL) returns
Sleep ==
    /\ mpc = "sleep"
    /\ mpc' = "top"
    /\ UNCHANGED << metric_files, summary_file, iteration, screen, interrupted >>
    /\ DashStep

\* Ctrl+C: KeyboardInterrupt is raised where run() stands, the except clause
\* prints the final lines and run() returns
Interrupt ==
    /\ mpc \in Running
    /\ interrupted' = TRUE
    /\ screen' = screen \o << Line("stopped_by_user", "", <<>>),
                              Line("total_runtime", "", <<>>),
                              Line("terminated", "", <<>>) >>
    /\ mpc' = "stopped"
    /\ UNCHANGED << metric_files, summary_file, iteration >>
    /\ DashStep

\* files of the results directory: missing, header only, latest accuracy 0.50,
\* latest accuracy 0.80, an empty accuracy in the last row
DashHeader == HeaderRow(<< "round", "accuracy", "reward" >>)
DashFiles ==
    { NoFile,
      FileOf(<< DashHeader >>),
      FileOf(<< DashHeader, << StrInt(1), StrFloat(50), StrFloat(42) >> >>),
      FileOf(<< DashHeader, << StrInt(1), StrFloat(50), StrFloat(42) >>,
                            << StrInt(2), StrFloat(80), StrFloat(55) >> >>),
      FileOf(<< DashHeader, << StrInt(1), StrFloat(50), StrFloat(42) >>,
                            << StrFloat(250), StrEmpty, StrFloat(42) >> >>) }

SummaryHeader ==
    HeaderRow(<< "agent", "final_accuracy", "mean_accuracy", "std_accuracy",
                 "training_time_seconds" >>)
SummaryFiles ==
    { NoFile,
      FileOf(<< SummaryHeader,
                << StrWord("PPO"), StrFloat(81), StrFloat(77), StrFloat(4), StrFloat(30520) >> >>),
      FileOf(<< SummaryHeader,
                << StrWord("PPO"), StrWord("abc"), StrFloat(77), StrFloat(4), StrFloat(30520) >> >>) }

InitDash ==
    /\ LoggerIdle
    /\ agent_file = NoFile
    /\ data = <<>>
    /\ latest = <<>>
    /\ stats = <<>>
    /\ PlotIdle
    /\ metric_files \in [Agents -> DashFiles]
    /\ summary_file \in SummaryFiles
    /\ mpc = "top"
    /\ iteration = 0
    /\ screen = <<>>
    /\ interrupted = FALSE

NextDash ==
    \/ DisplayHeader
    \/ DisplayProgress
    \/ DisplayHistory
    \/ DisplaySummary
    \/ DisplayFooter
    \/ Sleep
    \/ Interrupt

SpecDash == InitDash /\ [][NextDash]_vars

\* -------------------------------------------------------------- SpecPlot
\* the chart: a training process with its loggers and the plotter's refreshes
MaxFrames == 2           \* refreshes (FuncAnimation calls update_plot without end)

\* read_actions: pd.read_csv of actions.csv, None for a missing or unparsable file
read_actions(file) ==
    IF file.exists
    THEN IF file.rows = <<>>
         THEN None
         ELSE DataFrame([i \in 1..Len(file.rows[1]) |-> file.rows[1][i].s],
                        [r \in 1..(Len(file.rows) - 1) |->
                            [i \in 1..Len(file.rows[r + 1]) |-> PdValue(file.rows[r + 1][i])]])
    ELSE None

HasColumn(df, col) == \E i \in 1..Len(df.columns) : df.columns[i] = col

\* the panels after update_plot(frame) on the frames read. f'{val:.3f}' raises
\* for a value that is a string, and update_plot ends there; whether barh has
\* drawn the bars before is the plotting library's matter (barh_draws)
update_plot(shown, f, df, actions_df, barh_draws) ==
    LET action_names == SelectSeq(actions_df.columns,
                                  LAMBDA col : col \notin {"round", "client_id"})
        latest_actions == actions_df.rows[Len(actions_df.rows)]
        action_values == [i \in 1..Len(action_names) |->
                             latest_actions[FieldIndex(actions_df.columns, action_names[i])]]
        has_actions == ~actions_df.isNone /\ Len(actions_df.rows) > 0
        raises == has_actions /\ \E i \in 1..Len(action_values) : action_values[i].t = "str"
    IN  IF df.isNone \/ Len(df.rows) = 0
        THEN [shown EXCEPT !["ax1"] = Panel(f, "waiting", <<>>, <<>>)]
        ELSE [ax \in Axes |->
                CASE ax = "ax1" -> Panel(f, "reward_curves", <<>>, <<>>)
                  [] ax = "ax2" -> IF HasColumn(df, "episode_length")
                                   THEN Panel(f, "episode_lengths", <<>>, <<>>)
                                   ELSE Panel(f, "episode_not_available", <<>>, <<>>)
                  [] ax = "ax3" -> IF HasColumn(df, "loss")
                                   THEN Panel(f, "loss_curves", <<>>, <<>>)
                                   ELSE Panel(f, "loss_not_available", <<>>, <<>>)
                  [] ax = "ax4" -> IF ~has_actions
                                   THEN Panel(f, "action_not_available", <<>>, <<>>)
                                   ELSE IF raises /\ ~barh_draws
                                        THEN Panel(f, "empty", <<>>, <<>>)
                                        ELSE Panel(f, "action_bars", action_names, action_values)
                  [] ax = "ax5" -> IF raises THEN shown["ax5"]
                                   ELSE Panel(f, "statistics", <<>>, <<>>)]

\* one call of update_plot by the animation timer
UpdatePlot ==
    /\ frame < MaxFrames
    /\ frame' = frame + 1
    /\ metrics_df' = read_metrics(metrics_file)
    /\ readSeen' = returned
    /\ \E barh_draws \in BOOLEAN :
          panels' = update_plot(panels, frame + 1, read_metrics(metrics_file),
                                read_actions(actions_file), barh_draws)
    /\ UNCHANGED << metrics_file, actions_file, events_file, constructed, metrics_buffer,
                    actions_buffer, events_buffer, pc, cur, handle, clock, calls, returned,
                    lastOp, prevRun >>
    /\ UNCHANGED << agent_file, data, latest, stats, dashVars >>

\* rows of more than 12 counts do not fit the header of actions.csv and are
\* left to the Logger's own specification
PlotCountInputs == { Counts(k) : k \in {0, ACTION_BUCKETS} }

NextPlot ==
    \/ \E l \in Loggers : Construct(l)
    \/ \E l \in Loggers, in \in RoundInputs : LogRoundWrite(l, in)
    \/ LogRoundClose
    \/ LogRoundReturn
    \/ \E l \in Loggers, counts \in PlotCountInputs : LogActionDistribution(l, 1, 0, counts)
    \/ UpdatePlot

SpecPlot == Init /\ [][NextPlot]_vars

\* ------------------------------------------------------------- SpecFault
\* log_round with writes that fail: open() or the write raises OSError, the
\* exception leaves log_round at that statement

\* open(self.metrics_file, 'a') raises: nothing is written, nothing is appended
LogRoundOpenFails(l, in) ==
    /\ pc = "idle"
    /\ constructed[l]
    /\ clock < MaxClock
    /\ clock' = clock + 1
    /\ calls' = Append(calls, [l |-> l, ts |-> clock, input |-> in])
    /\ lastOp' = Op("log_round", l, <<>>)
    /\ UNCHANGED << metrics_file, actions_file, events_file, constructed, metrics_buffer,
                    actions_buffer, events_buffer, pc, cur, handle, returned, prevRun,
                    metrics_df, readSeen >>
    /\ UNCHANGED monitorVars

\* the write of the buffered row fails when the with-block closes the file
LogRoundWriteFails ==
    /\ pc = "writing"
    /\ handle' = <<>>
    /\ cur' = NoCall
    /\ pc' = "idle"
    /\ UNCHANGED << metrics_file, actions_file, events_file, constructed, metrics_buffer,
                    actions_buffer, events_buffer, clock, calls, returned, lastOp, prevRun,
                    metrics_df, readSeen >>
    /\ UNCHANGED monitorVars

\* _log_event raises on training_log.txt: the row is in metrics.csv, the
\* statements after the call (the buffer append) are not reached
LogRoundEventFails ==
    /\ pc = "written"
    /\ cur' = NoCall
    /\ pc' = "idle"
    /\ UNCHANGED << metrics_file, actions_file, events_file, constructed, metrics_buffer,
                    actions_buffer, events_buffer, handle, clock, calls, returned, lastOp,
                    prevRun, metrics_df, readSeen >>
    /\ UNCHANGED monitorVars

NextFault ==
    \/ \E l \in Loggers : Construct(l)
    \/ \E l \in Loggers, in \in RoundInputs : LogRoundWrite(l, in)
    \/ LogRoundClose
    \/ LogRoundReturn
    \/ \E l \in Loggers, in \in RoundInputs : LogRoundOpenFails(l, in)
    \/ LogRoundWriteFails
    \/ LogRoundEventFails

SpecFault == Init /\ [][NextFault]_vars

\* ================================================================ claims
\* the fields of the metrics row of a log_round call, as text
ExpectedFields(ts, in) ==
    << StrTime(ts), StrInt(in.round_num), StrInt(in.client_id), StrFloat(in.mean_reward),
       StrFloat(in.std_reward), StrInt(in.episode_length), StrFloat(in.loss),
       IF in.global_reward = PyNone THEN StrEmpty ELSE StrFloat(in.global_reward.n) >>

\* the same row as pandas returns it
ExpectedFrameRow(ts, in) ==
    << StrTime(ts), PyFloat(100 * in.round_num), PyFloat(100 * in.client_id),
       PyFloat(in.mean_reward), PyFloat(in.std_reward), PyFloat(100 * in.episode_length),
       PyFloat(in.loss),
       IF in.global_reward = PyNone THEN NaN ELSE PyFloat(in.global_reward.n) >>

IsPrefix(p, q) == Len(p) <= Len(q) /\ \A i \in 1..Len(p) : p[i] = q[i]

\* C1: on a directory without a metrics file, after constructing the logger(s)
\* and N log_round calls the metrics file is one header row followed by the N
\* rows of the calls, in call order.
C1_HeaderThenRowsInCallOrder ==
    (~prevRun /\ pc = "idle" /\ \E l \in Loggers : constructed[l]) =>
        metrics_file.rows =
            << HeaderRow(METRICS_HEADER) >>
                \o [i \in 1..Len(calls) |-> ExpectedFields(calls[i].ts, calls[i].input)]

C1_Witness ==
    /\ ~prevRun
    /\ pc = "idle"
    /\ Len(calls) = 2
    /\ calls[1].input # calls[2].input
    /\ Len(metrics_file.rows) = 3

\* C2: a read of the metrics file that opens it after a log_round call has
\* returned contains the complete row of that call.
C2_ReadAfterReturnHasRow ==
    \A i \in 1..Len(readSeen) :
        /\ ~metrics_df.isNone
        /\ \E r \in 1..Len(metrics_df.rows) :
              metrics_df.rows[r] = ExpectedFrameRow(readSeen[i].ts, readSeen[i].input)

\* a read made while the next call's row was still in the file object's buffer
C2_Witness ==
    /\ Len(readSeen) >= 1
    /\ pc = "writing"
    /\ metrics_df = read_metrics(metrics_file)
    /\ Len(metrics_df.rows) = Len(readSeen) /\ ~prevRun

\* C3: log_action_distribution with k <= 12 counts appends one row whose 12
\* bucket values are the k counts followed by 12-k zeros.
C3_ShortCountsZeroPadded ==
    [][ (lastOp' # lastOp /\ lastOp'.op = "log_action_distribution"
            /\ Len(lastOp'.action_counts) <= ACTION_BUCKETS) =>
          LET given == lastOp'.action_counts
              row == actions_file'.rows[Len(actions_file'.rows)]
          IN  /\ Len(actions_file'.rows) = Len(actions_file.rows) + 1
              /\ IsPrefix(actions_file.rows, actions_file'.rows)
              /\ Len(row) = 3 + ACTION_BUCKETS
              /\ \A i \in 1..ACTION_BUCKETS :
                    row[3 + i] = StrInt(IF i <= Len(given) THEN given[i] ELSE 0) ]_vars

C3_Witness ==
    /\ lastOp.op = "log_action_distribution"
    /\ Len(lastOp.action_counts) = 8
    /\ actions_file.rows[Len(actions_file.rows)][3 + ACTION_BUCKETS] = StrInt(0)

\* C4: log_action_distribution with more than 12 counts is rejected: no row
\* is appended to the actions file or to the actions buffer.
C4_LongCountsRejected ==
    [][ (lastOp' # lastOp /\ lastOp'.op = "log_action_distribution"
            /\ Len(lastOp'.action_counts) > ACTION_BUCKETS) =>
          (actions_file' = actions_file /\ actions_buffer' = actions_buffer) ]_vars

\* C5: the metrics file and the actions file only grow: the content before a
\* step is a prefix of the content after it, also when a further logger is
\* constructed on existing files.
Grows(before, after) ==
    before.exists => (after.exists /\ IsPrefix(before.rows, after.rows))

C5_AppendOnly ==
    [][ Grows(metrics_file, metrics_file') /\ Grows(actions_file, actions_file') ]_vars

\* a second logger constructed on files that hold the first one's rows
C5_Witness ==
    /\ lastOp.op = "__init__"
    /\ Len(calls) >= 1
    /\ \A l \in Loggers : constructed[l]
    /\ Len(metrics_file.rows) = 1 + Len(calls) + (IF prevRun THEN 1 ELSE 0)

\* C6: log_episode, log_aggregation, log_checkpoint and log_error append one
\* line with their level tag to the event log and leave the metrics file, the
\* actions file and the metrics and actions buffers unchanged.
LevelTag(op) ==
    CASE op = "log_episode" -> "EPISODE"
      [] op = "log_aggregation" -> "AGGREGATION"
      [] op = "log_checkpoint" -> "CHECKPOINT"
      [] op = "log_error" -> "ERROR"

EventOps == {"log_episode", "log_aggregation", "log_checkpoint", "log_error"}

C6_EventOpsOneLineOnly ==
    [][ (lastOp' # lastOp /\ lastOp'.op \in EventOps) =>
          /\ Len(events_file'.rows) = Len(events_file.rows) + 1
          /\ IsPrefix(events_file.rows, events_file'.rows)
          /\ events_file'.rows[Len(events_file'.rows)].level = LevelTag(lastOp'.op)
          /\ UNCHANGED << metrics_file, actions_file, metrics_buffer, actions_buffer >> ]_vars

C6_Witness ==
    /\ lastOp.op \in EventOps
    /\ Len(calls) >= 1
    /\ Len(actions_file.rows) >= 2
    /\ events_file.rows[Len(events_file.rows)].level = LevelTag(lastOp.op)

\* C7 (as stated): summary() of every instance carries the row count and the
\* distinct-round and distinct-client totals of the log_round calls made on
\* that instance.
OwnCalls(l) == SelectSeq(calls, LAMBDA c : c.l = l)
OwnTotals(l, s) ==
    /\ "total_metrics" \in DOMAIN s
    /\ s.total_metrics = Len(OwnCalls(l))
    /\ s.total_rounds = Cardinality({OwnCalls(l)[i].input.round_num : i \in 1..Len(OwnCalls(l))})
    /\ s.total_clients = Cardinality({OwnCalls(l)[i].input.client_id : i \in 1..Len(OwnCalls(l))})

C7_SummaryCountsOwnCalls ==
    \A l \in Loggers :
        (constructed[l] /\ pc = "idle") => OwnTotals(l, get_metrics_summary(l))

\* C7 (amended): the same for an instance with at least one log_round call;
\* with none, summary() is the status message alone.
C7_SummaryOfOwnCalls ==
    \A l \in Loggers :
        (constructed[l] /\ pc = "idle") =>
            IF OwnCalls(l) = <<>>
            THEN get_metrics_summary(l) = [status |-> "No metrics logged yet"]
            ELSE OwnTotals(l, get_metrics_summary(l))

\* both instances logged, one of them twice
C7_Witness ==
    /\ pc = "idle"
    /\ \E l, m \in Loggers :
          /\ Len(OwnCalls(l)) = 1
          /\ Len(OwnCalls(m)) >= 1
          /\ l # m
          /\ get_metrics_summary(l).total_metrics = 1

\* C8: reading a tabular file gives "absent" when the file does not exist and
\* an empty sequence of rows when it holds the header row only.
C8_AbsentDistinctFromEmpty ==
    data # <<>> =>
        /\ ~agent_file.exists => data[1] = NoData
        /\ (agent_file.exists /\ Len(agent_file.rows) = 1) => data[1] = List(<<>>)

\* the text of a field that spells a number
IsNumeric(v) == v.t = "str" /\ v.lit \in {"int", "float"}
Hundredths(v) == IF v.lit = "int" THEN 100 * v.n ELSE v.n

\* the two log_round calls of the scenario and the rows read back from their file
ScenarioCalls ==
    << RoundInput(1, 0, 42, 0, 0, 5, PyNone), RoundInput(2, 0, 55, 0, 0, 3, PyNone) >>
ScenarioRows == List(DictReader(LoggerFile(ScenarioCalls)))

\* C9 (as stated): latest(rows) is the round, accuracy and reward of the last
\* row, 0 / 0.0 for a field the row does not supply, the defaults for an empty
\* sequence; on the rows of the two scenario calls it is round 2, accuracy
\* 0.0, reward 0.55.
Supplied(row, key) == key \in DOMAIN row /\ row[key] # PyNone
FieldOr0(row, key) == IF key \in DOMAIN row THEN Hundredths(row[key]) ELSE 0
NumericOrNoColumn(row, key) == key \notin DOMAIN row \/ IsNumeric(row[key])
RECURSIVE SumOver(_, _)
\* the sum of f[x] for x in S
SumOver(S, f) ==
    IF S = {} THEN 0
    ELSE LET x == CHOOSE y \in S : TRUE IN f[x] + SumOver(S \ {x}, f)

ValidIdx(d, column) ==
    { i \in 1..Len(d.rows) : column \in DOMAIN d.rows[i] /\ IsNumeric(d.rows[i][column]) }

\* mean S/n, variance (n * sum of squares - S^2) / n^2, over a set of row indices
PopulationStatistics(d, column, idx) ==
    LET val(i) == Hundredths(d.rows[i][column])
        n == Cardinality(idx)
        S == SumOver(idx, [i \in idx |-> val(i)])
        Q == SumOver(idx, [i \in idx |-> val(i) * val(i)])
    IN  Statistics(Frac(S, n), Sqrt(Frac(n * Q - S * S, n * n)),
                   Frac(CHOOSE x \in {val(i) : i \in idx} : \A j \in idx : val(j) <= x, 1),
                   Frac(CHOOSE x \in {val(i) : i \in idx} : \A j \in idx : x <= val(j), 1))

C10_StatisticsOfValidRows ==
    \A i \in 1..Len(stats) :
        LET d == stats[i].arg
            idx == IF d.isNone THEN {} ELSE ValidIdx(d, stats[i].column)
        IN  stats[i].result =
                IF idx = {} THEN ZeroStatistics
                ELSE PopulationStatistics(d, stats[i].column, idx)


\* ---- the dashboard (SpecDash)
HasData(a) == metric_files[a].exists /\ Len(DictReader(metric_files[a])) > 0
LatestAccuracy(a) ==
    LET rows == DictReader(metric_files[a]) IN FieldOr0(rows[Len(rows)], "accuracy")
OrderIndex(a) == CHOOSE i \in 1..Len(AGENT_ORDER) : AGENT_ORDER[i] = a
BestLines == { i \in 1..Len(screen) : screen[i].kind = "best" }

\* C11: the agent named in the "Best Current Performance" line has data, no
\* agent with data has a greater latest accuracy, and no agent with the same
\* latest accuracy comes before it in the order PPO, SAC, TD3, Random; the
\* line shows that accuracy
C11_BestIsFirstMaximal ==
    \A i \in BestLines :
        LET b == screen[i].agent IN
        /\ b \in Agents
        /\ HasData(b)
        /\ screen[i].cells = << Number(Frac(LatestAccuracy(b), 1)) >>
        /\ \A a \in Agents :
              HasData(a) =>
                  /\ LatestAccuracy(a) <= LatestAccuracy(b)
                  /\ LatestAccuracy(a) = LatestAccuracy(b) => OrderIndex(b) <= OrderIndex(a)

\* a best line where two agents tie for the maximum and an agent before them
\* in the order has a smaller accuracy
C11_Witness ==
    \E i \in BestLines :
        LET b == screen[i].agent IN
        /\ \E a \in Agents \ {b} : HasData(a) /\ LatestAccuracy(a) = LatestAccuracy(b)
        /\ \E c \in Agents : /\ HasData(c)
                             /\ OrderIndex(c) < OrderIndex(b)
                             /\ LatestAccuracy(c) < LatestAccuracy(b)

IsNARow(line, a) ==
    /\ line.kind = "row"
    /\ line.agent = a
    /\ Len(line.cells) = 5
    /\ \A k \in 1..5 : line.cells[k] = Text("N/A")
ProgressShown == \E i \in 1..Len(screen) : screen[i].kind = "progress_title"

\* C12: once the progress section of a cycle is on the screen, every agent
\* whose metrics file does not exist has a row with "N/A" in all five columns,
\* whatever files the other agents have
C12_MissingAgentHasNARow ==
    ProgressShown =>
        \A a \in Agents :
            ~metric_files[a].exists => \E i \in 1..Len(screen) : IsNARow(screen[i], a)

HasLine(kind) == \E i \in 1..Len(screen) : screen[i].kind = kind
\* the sections of one rendered cycle; the summary section only if summary.csv has rows
FullDashboard ==
    /\ HasLine("header")
    /\ HasLine("progress_title")
    /\ HasLine("history_title")
    /\ (summary_file.exists /\ Len(DictReader(summary_file)) > 0) => HasLine("summary_title")
    /\ HasLine("footer")

\* C13: the monitor leaves the running state only by an interrupt, whatever the
\* metrics and summary files contain, and a cycle that has started is rendered
\* in full before the next one starts
C13_FullDashboardUntilInterrupt ==
    /\ mpc \in Running \cup {"stopped"}
    /\ mpc = "stopped" => interrupted
    /\ mpc \in {"sleep"} => FullDashboard
    /\ (mpc = "top" /\ iteration > 0) => FullDashboard

\* C14: when the monitor has stopped on an interrupt, the last cycle on the
\* screen (if one was started) is rendered in full, and the final lines follow it
C14_NoPartialCycleAtStop ==
    mpc = "stopped" =>
        /\ HasLine("header") => FullDashboard
        /\ HasLine("total_runtime")
        /\ screen[Len(screen)].kind = "terminated"

\* ---- the chart (SpecPlot)
\* C15: a refresh leaves every one of the five panels drawn by that refresh,
\* whatever its read of metrics.csv and actions.csv returned
C15_AllPanelsRedrawn ==
    [][frame' # frame => \A ax \in Axes : panels'[ax].drawn = frame']_vars

BucketNames == SubSeq(ACTIONS_HEADER, 4, 3 + ACTION_BUCKETS)
HasRows(df) == ~df.isNone /\ Len(df.rows) > 0

\* C16: a refresh that reads data rows from metrics.csv and from actions.csv
\* leaves panel 4 with one bar per action bucket, named by the bucket and as
\* wide as the bucket's count in the last row of actions.csv, and no other bar
C16_OneBarPerBucket ==
    [][(/\ frame' # frame
        /\ HasRows(read_metrics(metrics_file))
        /\ HasRows(read_actions(actions_file)))
       => LET last == actions_file.rows[Len(actions_file.rows)] IN
          panels'["ax4"] = Panel(frame', "action_bars", BucketNames,
                                 [i \in 1..ACTION_BUCKETS |-> PdValue(last[3 + i])])]_vars

\* ---- failing writes (SpecFault)
\* the rows of metrics.csv that come from log_round calls of instance l
AppendedBy(l) ==
    { i \in 1..Len(calls) :
        /\ calls[i].l = l
        /\ \E r \in 1..Len(metrics_file.rows) :
              metrics_file.rows[r] = ExpectedFields(calls[i].ts, calls[i].input) }

\* C17: between calls every instance's metrics buffer has as many rows as the
\* instance has appended to metrics.csv, also after log_round calls that ended
\* with a failed write
C17_BufferMatchesFile ==
    pc = "idle" => \A l \in Loggers : Len(metrics_buffer[l]) = Cardinality(AppendedBy(l))
====
